---- MODULE Spec2Model ----
(***************************************************************************)
(* fSync (src/fSync.py): the camera-data extractor FSyncFunc.extract_data, *)
(* the converter FSyncFunc.rotation_matrix_to_euler_zyx and the camera     *)
(* operations create_camera / update_camera that consume their output.     *)
(*                                                                         *)
(* Numbers.  The code computes in float64 (Python floats and numpy).  The  *)
(* model computes in fixed point: a real x is the integer round(x*Scale),  *)
(* an angle in radians is a whole number of units of pi/36 (5 degrees).    *)
(* sin and cos are tabulated on that grid, asin and atan2 are computed     *)
(* from the table, and numpy's non-finite results are the two values NaN   *)
(* and Inf.  Exactly 1 and exactly -1 are Scale and -Scale, and Scale - 1  *)
(* is the representable number closest to 1.                               *)
(***************************************************************************)
EXTENDS Integers, Sequences, FiniteSets, TLC

VARIABLES
    aspect_ratio,   \* self.aspect_ratio
    angle_of_view,  \* self.angle_of_view
    focal_length,   \* self.focal_length
    pos_x,          \* self.pos_x
    pos_y,          \* self.pos_y
    pos_z,          \* self.pos_z
    euler_angles,   \* self.euler_angles
    projection_shader, \* self.projection_shader
    scene,          \* the Maya scene: camera name -> its attributes
    shaders,        \* the Maya scene: shader name -> the shader networks made under it
    made,           \* camera name -> how many cameras were created under it
    ui,             \* the FSyncUI widgets: field texts, checkbox, buttons
    last,           \* the call that ran last: operation, argument, exception
    mem,            \* the first call extract_data(d) that returned: d and its result
    matrix,         \* the argument of rotation_matrix_to_euler_zyx under test
    angles_in,      \* the (roll, pitch, yaw) the matrix was built from, in degrees
    pc              \* position of the converter harness

vars == <<aspect_ratio, angle_of_view, focal_length, pos_x, pos_y, pos_z,
          euler_angles, projection_shader, scene, shaders, made, ui, last, mem,
          matrix, angles_in, pc>>

----------------------------------------------------------------------------
(* float64 values *)

\* Fixed-point scale: the integer v stands for the real v / Scale.
Scale == 1000

\* Degrees per angle unit: np.degrees maps the unit pi/36 to 5 degrees.
DegPerUnit == 5

\* np.pi / 2 in angle units.
HalfPi == 18

\* numpy's nan and inf (results of invalid and of divide-by-zero operations).
NaN == 0 - 7777777

Inf == 7777777

\* Python's None (the value of every derived parameter after __init__).
None == 0 - 8888888

IsFinite(v) == v # NaN /\ v # Inf /\ v # 0 - Inf

Abs(v) == IF v < 0 THEN 0 - v ELSE v

Sgn(v) == IF v < 0 THEN 0 - 1 ELSE IF v > 0 THEN 1 ELSE 0

\* Unary minus: -nan is nan.
Neg(v) == IF v = NaN THEN NaN ELSE 0 - v

\* a / b on fixed-point numbers, rounded to nearest.  numpy division does not
\* raise: x/0 is +-inf and 0/0 is nan.
FDiv(a, b) ==
    IF a = NaN \/ b = NaN THEN NaN
    ELSE IF b = 0 THEN (IF a = 0 THEN NaN ELSE Sgn(a) * Inf)
    ELSE IF ~IsFinite(a) THEN (IF IsFinite(b) THEN Sgn(a) * Sgn(b) * Inf ELSE NaN)
    ELSE IF ~IsFinite(b) THEN 0
    ELSE Sgn(a) * Sgn(b) * ((Abs(a) * Scale + Abs(b) \div 2) \div Abs(b))

\* a * b on fixed-point numbers, rounded to nearest.
FMul(a, b) ==
    IF a = NaN \/ b = NaN THEN NaN
    ELSE IF ~IsFinite(a) \/ ~IsFinite(b)
         THEN (IF a = 0 \/ b = 0 THEN NaN ELSE Sgn(a) * Sgn(b) * Inf)
    ELSE Sgn(a) * Sgn(b) * ((Abs(a) * Abs(b) + Scale \div 2) \div Scale)

\* sin(k * 5 degrees) * Scale for k = 0..18.
SinTab == <<0, 87, 174, 259, 342, 423, 500, 574, 643, 707,
            766, 819, 866, 906, 940, 966, 985, 996, 1000>>

\* np.sin on angle units (any integer number of units).
Sin(a) ==
    IF a = NaN THEN NaN
    ELSE LET r == a % 72
             h == IF r >= 36 THEN r - 36 ELSE r
             q == IF h > 18 THEN 36 - h ELSE h
             v == SinTab[q + 1]
         IN  IF r >= 36 THEN 0 - v ELSE v

\* np.cos on angle units.
Cos(a) == IF a = NaN THEN NaN ELSE Sin(a + HalfPi)

\* np.tan on angle units.
Tan(a) == FDiv(Sin(a), Cos(a))

\* A mutant of ArcSin: the argument is clamped to [-1, 1].
ArcSin_Clamped(x) ==
    IF x = NaN THEN NaN
    ELSE IF Abs(x) > Scale THEN Sgn(x) * HalfPi
    ELSE Sgn(x) * Cardinality({k \in 1..HalfPi : SinTab[k + 1] <= Abs(x)})

\* np.arcsin: nan outside [-1, 1] (numpy warns, it does not raise); inside, the
\* grid angle of [-pi/2, pi/2] whose sine is x, rounded toward 0 between grid angles.
ArcSin(x) ==
    IF x = NaN \/ Abs(x) > Scale THEN NaN
    ELSE Sgn(x) * Cardinality({k \in 1..HalfPi : SinTab[k + 1] <= Abs(x)})

\* arctan2 on the first quadrant (y >= 0, x >= 0, not both 0): the grid angle
\* nearest to the direction of (x, y), found where the cross product
\* y cos a - x sin a changes sign.
\* On 0..pi/2, sin k is SinTab[k + 1] and cos k is SinTab[HalfPi - k + 1].
ArcTan2Q1(y, x) ==
    Cardinality({k \in 1..HalfPi :
        (y * SinTab[HalfPi - k + 1] - x * SinTab[k + 1])
          + (y * SinTab[HalfPi - k + 2] - x * SinTab[k]) > 0})

\* np.arctan2(y, x), in [-pi, pi]; arctan2(0, 0) = 0.  Beside an infinite
\* argument a finite one counts as 0.
ArcTan2(y, x) ==
    IF y = NaN \/ x = NaN THEN NaN
    ELSE IF x = 0 /\ y = 0 THEN 0
    ELSE LET inf == ~IsFinite(y) \/ ~IsFinite(x)
             yy == IF inf THEN (IF IsFinite(y) THEN 0 ELSE Sgn(y)) ELSE y
             xx == IF inf THEN (IF IsFinite(x) THEN 0 ELSE Sgn(x)) ELSE x
             q == ArcTan2Q1(Abs(yy), Abs(xx))
             u == IF xx < 0 THEN 2 * HalfPi - q ELSE q
         IN  IF yy < 0 THEN 0 - u ELSE u

\* np.degrees.
Degrees(a) == IF a = NaN THEN NaN ELSE a * DegPerUnit

\* np.radians, on a whole number of 5-degree steps.
Radians(d) == IF d = NaN THEN NaN ELSE d \div DegPerUnit

----------------------------------------------------------------------------
(* rotation_matrix_to_euler_zyx *)

\* matrix[i, j] of the code is m[i + 1][j + 1] here.
At(m, i, j) == m[i + 1][j + 1]

\* A mutant of EulerTriple: the array is laid out (yaw, pitch, roll).
EulerTriple_YawFirst(roll, pitch, yaw) == <<Degrees(yaw), Degrees(pitch), Degrees(roll)>>

\* The layout of the returned array: np.degrees([roll, pitch, yaw]).
EulerTriple(roll, pitch, yaw) == <<Degrees(roll), Degrees(pitch), Degrees(yaw)>>

\* A mutant of IsGimbalLock: a tolerance instead of the exact comparison.
IsGimbalLock_Tolerance(m) == Abs(At(m, 2, 0)) >= Scale - 1

\* Line 451: the regular branch is taken unless |matrix[2,0]| is exactly 1.
IsGimbalLock(m) == ~(Abs(At(m, 2, 0)) # Scale)

\* A mutant of RegularBranch: the arguments of the two arctan2 are swapped.
RegularBranch_SwappedAtan(m) ==
    LET pitch == Neg(ArcSin(At(m, 2, 0)))
        roll  == ArcTan2(FDiv(At(m, 2, 2), Cos(pitch)), FDiv(At(m, 2, 1), Cos(pitch)))
        yaw   == ArcTan2(FDiv(At(m, 0, 0), Cos(pitch)), FDiv(At(m, 1, 0), Cos(pitch)))
    IN  EulerTriple(roll, pitch, yaw)

\* Lines 452-454.
RegularBranch(m) ==
    LET pitch == Neg(ArcSin(At(m, 2, 0)))
        roll  == ArcTan2(FDiv(At(m, 2, 1), Cos(pitch)), FDiv(At(m, 2, 2), Cos(pitch)))
        yaw   == ArcTan2(FDiv(At(m, 1, 0), Cos(pitch)), FDiv(At(m, 0, 0), Cos(pitch)))
    IN  EulerTriple(roll, pitch, yaw)

\* A mutant of GimbalBranch: the arguments of arctan2 are not negated when
\* matrix[2,0] is +1.
GimbalBranch_NoNegate(m) ==
    LET yaw   == 0
        pitch == IF At(m, 2, 0) = 0 - Scale THEN HalfPi ELSE 0 - HalfPi
        roll  == yaw + ArcTan2(At(m, 0, 1), At(m, 0, 2))
    IN  EulerTriple(roll, pitch, yaw)

\* Lines 456-459.
GimbalBranch(m) ==
    LET yaw   == 0
        pitch == IF At(m, 2, 0) = 0 - Scale THEN HalfPi ELSE 0 - HalfPi
        roll  == IF At(m, 2, 0) = 0 - Scale
                 THEN yaw + ArcTan2(At(m, 0, 1), At(m, 0, 2))
                 ELSE Neg(yaw) + ArcTan2(Neg(At(m, 0, 1)), Neg(At(m, 0, 2)))
    IN  EulerTriple(roll, pitch, yaw)

rotation_matrix_to_euler_zyx(m) ==
    IF ~IsGimbalLock(m) THEN RegularBranch(m) ELSE GimbalBranch(m)

\* Which of the two branches of line 451 runs.
BranchTaken(m) == IF ~IsGimbalLock(m) THEN "regular" ELSE "gimbal"

----------------------------------------------------------------------------
(* extract_data *)

\* The derived parameters held by the FSyncFunc object.
Self ==
    [aspect_ratio |-> aspect_ratio, angle_of_view |-> angle_of_view,
     focal_length |-> focal_length, pos_x |-> pos_x, pos_y |-> pos_y, pos_z |-> pos_z,
     euler_angles |-> euler_angles]

\* The reference sensor size of line 438.
SensorSize == 24

\* A statement's outcome: the object's fields after it and the exception raised.
Ok(s) == [self |-> s, raised |-> "none"]

Raise(s, e) == [self |-> s, raised |-> e]

\* data[k] raises KeyError when the dict has no key k.
HasKey(d, k) == k \in DOMAIN d

\* rows[i][j] raises IndexError when the list rows or the list rows[i] is too short.
HasIndex(rows, i, j) == i + 1 <= Len(rows) /\ j + 1 <= Len(rows[i + 1])

\* A mutant of Line436: the division follows numpy and yields inf or nan on a
\* zero divisor instead of raising.
Line436_NoRaise(d, s) ==
    IF ~HasKey(d, "imageWidth") \/ ~HasKey(d, "imageHeight") THEN Raise(s, "KeyError")
    ELSE Ok([s EXCEPT !.aspect_ratio = FDiv(d["imageWidth"], d["imageHeight"])])

\* A mutant of Line436: an aspect ratio already stored is kept.
Line436_Cached(d, s) ==
    IF ~HasKey(d, "imageWidth") \/ ~HasKey(d, "imageHeight") THEN Raise(s, "KeyError")
    ELSE IF d["imageHeight"] = 0 THEN Raise(s, "ZeroDivisionError")
    ELSE IF s.aspect_ratio # None THEN Ok(s)
    ELSE Ok([s EXCEPT !.aspect_ratio = FDiv(d["imageWidth"], d["imageHeight"])])

\* Line 436: the quotient of two Python numbers; a zero divisor raises.
Line436(d, s) ==
    IF ~HasKey(d, "imageWidth") \/ ~HasKey(d, "imageHeight") THEN Raise(s, "KeyError")
    ELSE IF d["imageHeight"] = 0 THEN Raise(s, "ZeroDivisionError")
    ELSE Ok([s EXCEPT !.aspect_ratio = FDiv(d["imageWidth"], d["imageHeight"])])

\* Line 437.
Line437(d, s) ==
    IF ~HasKey(d, "horizontalFieldOfView") THEN Raise(s, "KeyError")
    ELSE Ok([s EXCEPT !.angle_of_view = Degrees(d["horizontalFieldOfView"])])

\* Line 438: numpy arithmetic, which does not raise on a zero divisor.
Line438(d, s) ==
    Ok([s EXCEPT !.focal_length =
          FDiv(FMul(SensorSize * Scale, s.aspect_ratio),
               FMul(2 * Scale, Tan(Radians(s.angle_of_view) \div 2)))])

\* A mutant of Line440: the translation is read from row 3 instead of column 3.
Line440_Row(d, s) ==
    IF ~HasKey(d, "cameraTransform") THEN Raise(s, "KeyError")
    ELSE IF ~HasKey(d["cameraTransform"], "rows") THEN Raise(s, "KeyError")
    ELSE LET rows == d["cameraTransform"]["rows"]
         IN  IF \E j \in 0..2 : ~HasIndex(rows, 3, j) THEN Raise(s, "IndexError")
             ELSE Ok([s EXCEPT !.pos_x = rows[4][1], !.pos_y = rows[4][2],
                               !.pos_z = rows[4][3]])

\* Lines 439-440: the three reads happen before the three fields are assigned.
Line440(d, s) ==
    IF ~HasKey(d, "cameraTransform") THEN Raise(s, "KeyError")
    ELSE IF ~HasKey(d["cameraTransform"], "rows") THEN Raise(s, "KeyError")
    ELSE LET rows == d["cameraTransform"]["rows"]
         IN  IF \E i \in 0..2 : ~HasIndex(rows, i, 3) THEN Raise(s, "IndexError")
             ELSE Ok([s EXCEPT !.pos_x = rows[1][4], !.pos_y = rows[2][4],
                               !.pos_z = rows[3][4]])

\* Line 441: [row[:3] for row in rows[:3]].
RotMatrix(rows) == [i \in 1..3 |-> SubSeq(rows[i], 1, 3)]

\* Lines 441-442.
Line442(d, s) ==
    Ok([s EXCEPT !.euler_angles =
          rotation_matrix_to_euler_zyx(RotMatrix(d["cameraTransform"]["rows"]))])

\* extract_data(data) on an object whose fields are s: the statements run in
\* order and the first exception ends the call.
extract_data(d, s) ==
    LET r1 == Line436(d, s)
    IN  IF r1.raised # "none" THEN r1 ELSE
        LET r2 == Line437(d, r1.self)
        IN  IF r2.raised # "none" THEN r2 ELSE
            LET r3 == Line438(d, r2.self)
                r4 == Line440(d, r3.self)
            IN  IF r4.raised # "none" THEN r4 ELSE Line442(d, r4.self)

----------------------------------------------------------------------------
(* Rotation matrices from Euler angles: R = Rz(yaw) . Ry(pitch) . Rx(roll) *)

\* 3x3 product of fixed-point matrices.
MatMul(a, b) ==
    [i \in 1..3 |-> [j \in 1..3 |->
        FMul(a[i][1], b[1][j]) + FMul(a[i][2], b[2][j]) + FMul(a[i][3], b[3][j])]]

\* Elementary rotations about X, Y and Z.
Rx(a) == << <<Scale, 0, 0>>, <<0, Cos(a), 0 - Sin(a)>>, <<0, Sin(a), Cos(a)>> >>

Ry(a) == << <<Cos(a), 0, Sin(a)>>, <<0, Scale, 0>>, <<0 - Sin(a), 0, Cos(a)>> >>

Rz(a) == << <<Cos(a), 0 - Sin(a), 0>>, <<Sin(a), Cos(a), 0>>, <<0, 0, Scale>> >>

\* R = Rz(yaw) . Ry(pitch) . Rx(roll).
EulerToMatrix(roll, pitch, yaw) == MatMul(Rz(yaw), MatMul(Ry(pitch), Rx(roll)))

----------------------------------------------------------------------------
(* The records read from the JSON file *)

\* How many translations besides (5, -3, 10) the records carry.
MaxShift == 1

Keys == {"imageWidth", "imageHeight", "horizontalFieldOfView", "cameraTransform"}

\* A JSON object with the keys ks out of the four.
MakeRecord(w, h, f, ct, ks) ==
    [k \in ks |-> CASE k = "imageWidth" -> w
                   [] k = "imageHeight" -> h
                   [] k = "horizontalFieldOfView" -> f
                   [] OTHER -> ct]

EmptyDict == [k \in {} |-> 0]

Identity3 == << <<Scale, 0, 0>>, <<0, Scale, 0>>, <<0, 0, Scale>> >>

\* Rotation parts: identity, a general rotation, gimbal lock, an entry beyond 1.
RotVals ==
    {Identity3,
     EulerToMatrix(6, 9, 12),
     << <<0, 707, 0 - 707>>, <<0, 707, 707>>, <<0 - Scale, 0, 0>> >>,
     << <<0, 0, Scale>>, <<0, Scale, 0>>, <<Scale + 1, 0, 0>> >>}

TransVals ==
    {<<5 * Scale, 0 - 3 * Scale, 10 * Scale>>}
    \cup {<<k * Scale, 2 * k * Scale, 0 - k * Scale>> : k \in 1..MaxShift}

Row3Vals == {<<0, 0, 0, Scale>>, <<9 * Scale, 8 * Scale, 7 * Scale, 6 * Scale>>}

\* The 4x4 transform with rotation r, translation t and last row h.
Rows4x4(r, t, h) == <<Append(r[1], t[1]), Append(r[2], t[2]), Append(r[3], t[3]), h>>

RowsVals == {Rows4x4(r, t, h) : r \in RotVals, t \in TransVals, h \in Row3Vals}

\* Transforms of another shape, cut from or padded around a 4x4 one.
Misshapen(m) ==
    {SubSeq(m, 1, 3),
     SubSeq(m, 1, 2),
     <<>>,
     [i \in 1..4 |-> SubSeq(m[i], 1, 3)],
     [i \in 1..4 |-> IF i = 2 THEN SubSeq(m[i], 1, 3) ELSE m[i]],
     [i \in 1..5 |-> IF i = 5 THEN <<0, 0, 0, 0, Scale>> ELSE Append(m[i], 0)],
     [i \in 1..4 |-> Append(m[i], 0)]}

IsFourByFour(rows) == Len(rows) = 4 /\ \A i \in 1..4 : Len(rows[i]) = 4

\* Records with every key and a 4x4 transform.  horizontalFieldOfView is in
\* angle units: 12 is 60 degrees, 0 makes the tangent of line 438 zero.
BaseRows == Rows4x4(EulerToMatrix(6, 9, 12), <<5 * Scale, 0 - 3 * Scale, 10 * Scale>>,
                    <<0, 0, 0, Scale>>)

WholeRecords ==
    {MakeRecord(16 * Scale, 9 * Scale, 12, [rows |-> m], Keys) : m \in RowsVals}
    \cup {MakeRecord(wh[1], wh[2], f, [rows |-> BaseRows], Keys) :
             wh \in {<<16 * Scale, 9 * Scale>>, <<4 * Scale, 3 * Scale>>,
                      <<16 * Scale, 0>>},
             f \in {12, 0}}

\* Records with one thing wrong: a key missing, no rows, rows of another shape.
BrokenRecords ==
    {MakeRecord(16 * Scale, 9 * Scale, 12, [rows |-> BaseRows], Keys \ {k}) : k \in Keys}
    \cup {MakeRecord(4 * Scale, 3 * Scale, 12, EmptyDict, Keys)}
    \cup {MakeRecord(4 * Scale, 3 * Scale, 12, [rows |-> m], Keys) : m \in Misshapen(BaseRows)}
    \cup {EmptyDict}

Records == WholeRecords \cup BrokenRecords

----------------------------------------------------------------------------
(* The operations *)

Call(op, arg, name, raised, ret, branch) ==
    [op |-> op, arg |-> arg, name |-> name, raised |-> raised, ret |-> ret,
     branch |-> branch]

NoCall == Call("none", <<>>, "", "none", <<>>, "none")

NoMem == [arg |-> <<>>, self |-> <<>>, again |-> FALSE]

\* FSyncFunc.__init__, lines 346-349.
NewSelf ==
    [aspect_ratio |-> None, angle_of_view |-> None, focal_length |-> None,
     pos_x |-> None, pos_y |-> None, pos_z |-> None, euler_angles |-> <<>>]

\* The object's fields become s.
SetSelf(s) ==
    /\ aspect_ratio' = s.aspect_ratio
    /\ angle_of_view' = s.angle_of_view
    /\ focal_length' = s.focal_length
    /\ pos_x' = s.pos_x
    /\ pos_y' = s.pos_y
    /\ pos_z' = s.pos_z
    /\ euler_angles' = s.euler_angles

\* The record and result of the first call extract_data(d) that returned are kept
\* (the extractions inside create_camera and update_camera are not recorded); again
\* tells that the same record was extracted once more, by a call that returned
\* and that started from other stored parameters than that result.
Remember(d, r) ==
    mem' = IF r.raised # "none" THEN mem
           ELSE IF mem = NoMem THEN [arg |-> d, self |-> r.self, again |-> FALSE]
           ELSE IF d = mem.arg /\ Self # mem.self THEN [mem EXCEPT !.again = TRUE]
           ELSE mem

Harness == UNCHANGED <<matrix, angles_in, pc>>

\* A call extract_data(d).
ExtractData ==
    \E d \in Records :
        LET r == extract_data(d, Self)
        IN  /\ SetSelf(r.self)
            /\ last' = Call("extract_data", d, "", r.raised, <<>>, "none")
            /\ Remember(d, r)
            /\ UNCHANGED <<projection_shader, scene, shaders, made, ui>>
            /\ Harness

\* The names the camera name field holds ("Projection_Camera" is its placeholder).
CameraNames == {"Projection_Camera", "shotCam"}

\* No node of that name in the scene.
NoNode ==
    [exists |-> FALSE, translateX |-> None, translateY |-> None, translateZ |-> None,
     rotateX |-> None, rotateY |-> None, rotateZ |-> None, focalLength |-> None,
     hfv |-> None, ar |-> None]

\* cmds.objExists(name).
objExists(sc, n) == sc[n].exists

\* Lines 409-410: cmds.camera(hfv=, ar=, p=[x, y, z], rot=euler_angles); p and rot
\* give the X, Y and Z components in that order.  The focal length of the new
\* node is Maya's, not self.focal_length.
CameraNode(s) ==
    [exists |-> TRUE, translateX |-> s.pos_x, translateY |-> s.pos_y,
     translateZ |-> s.pos_z, rotateX |-> s.euler_angles[1],
     rotateY |-> s.euler_angles[2], rotateZ |-> s.euler_angles[3],
     focalLength |-> None, hfv |-> s.angle_of_view, ar |-> s.aspect_ratio]

\* Lines 420-426: the seven cmds.setAttr calls.
SetAttrs(node, s) ==
    [node EXCEPT !.translateX = s.pos_x, !.translateY = s.pos_y, !.translateZ = s.pos_z,
                 !.rotateX = s.euler_angles[1], !.rotateY = s.euler_angles[2],
                 !.rotateZ = s.euler_angles[3], !.focalLength = s.focal_length]

\* The JSON file at json_file_path: there or not, and what it parses to.
MissingFile == [exists |-> FALSE, data |-> EmptyDict]

\* _load_json_data: cmds.error raises RuntimeError when the file is not there.
LoadRaises(file) == ~file.exists

\* The outcome of an operation on the object and the scene.
Outcome(s, sc, e) == [self |-> s, scene |-> sc, raised |-> e]

\* The rest of create_camera / update_camera once extract_data has run with
\* outcome r: an exception of extract_data is not caught.
AfterExtract(r, sc, done) ==
    IF r.raised # "none" THEN Outcome(r.self, sc, r.raised) ELSE Outcome(r.self, done, "none")

\* create_camera, lines 404-411.
\* create_camera without the early return of lines 404-406.
create_camera_NoReturn(n, file, s, sc) ==
    IF LoadRaises(file) THEN Outcome(s, sc, "RuntimeError")
    ELSE LET r == extract_data(file.data, s)
         IN  AfterExtract(r, sc, [sc EXCEPT ![n] = CameraNode(r.self)])

create_camera(n, file, s, sc) ==
    IF objExists(sc, n) THEN Outcome(s, sc, "none")
    ELSE IF LoadRaises(file) THEN Outcome(s, sc, "RuntimeError")
    ELSE LET r == extract_data(file.data, s)
         IN  AfterExtract(r, sc, [sc EXCEPT ![n] = CameraNode(r.self)])

\* update_camera, lines 417-428.
update_camera(n, file, s, sc) ==
    IF LoadRaises(file) THEN Outcome(s, sc, "RuntimeError")
    ELSE LET r == extract_data(file.data, s)
         IN  AfterExtract(r, sc,
                 IF objExists(sc, n) THEN [sc EXCEPT ![n] = SetAttrs(sc[n], r.self)]
                 ELSE sc)

\* The records the JSON file holds when a camera is created or updated.
SceneRecords ==
    {MakeRecord(16 * Scale, 9 * Scale, 12, [rows |-> m], Keys) :
        m \in {Rows4x4(r, <<5 * Scale, 0 - 3 * Scale, 10 * Scale>>, <<0, 0, 0, Scale>>) :
                  r \in {EulerToMatrix(6, 9, 12),
                          << <<0, 707, 0 - 707>>, <<0, 707, 707>>, <<0 - Scale, 0, 0>> >>}}}
    \cup {MakeRecord(16 * Scale, 0, 12, [rows |-> BaseRows], Keys),
          MakeRecord(4 * Scale, 3 * Scale, 12, [rows |-> BaseRows], Keys \ {"cameraTransform"}),
          MakeRecord(4 * Scale, 3 * Scale, 0,
                     [rows |-> Rows4x4(Identity3, <<Scale, 2 * Scale, 0 - Scale>>,
                                       <<0, 0, 0, Scale>>)], Keys)}

Files == {[exists |-> TRUE, data |-> d] : d \in SceneRecords} \cup {MissingFile}

\* The names the shader name field holds ("Projection_Shader" is its placeholder).
ShaderNames == {"Projection_Shader", "shaderB"}

\* How many shader networks may be made under one name.
MaxCopies == 2

\* self.projection_shader is None (line 344); otherwise it is the node that
\* cmds.shadingNode returned: the name asked for and, when a node of that name
\* was there already, the number Maya made it unique with.
NoShader == [name |-> "", copy |-> 0]

\* cmds.objExists(self.shader_name).
shaderExists(shd, sh) == shd[sh] > 0

\* The outcome of create_projection_shader on the object and the scene.
ShaderOutcome(ps, shd, e) == [projection_shader |-> ps, shaders |-> shd, raised |-> e]

\* create_projection_shader, lines 466-497: the surfaceShader, file, projection
\* and shading-group nodes are made together; cmds.error raises RuntimeError.
create_projection_shader(n, sh, ps, sc, shd) ==
    IF ps # NoShader /\ shaderExists(shd, sh) THEN ShaderOutcome(ps, shd, "none")
    ELSE IF ~objExists(sc, n) THEN ShaderOutcome(ps, shd, "RuntimeError")
    ELSE ShaderOutcome([name |-> sh, copy |-> shd[sh]],
                       [shd EXCEPT ![sh] = @ + 1], "none")

\* create_scene, lines 374-377, with the camera name n, the shader name sh and
\* the JSON file that _get_ui_input finds: an exception of create_camera ends it.
create_scene(n, sh, file, s, ps, sc, shd) ==
    LET c == create_camera(n, file, s, sc)
        p == IF c.raised = "none" /\ objExists(c.scene, n)
             THEN create_projection_shader(n, sh, ps, c.scene, shd)
             ELSE ShaderOutcome(ps, shd, c.raised)
    IN  [self |-> c.self, scene |-> c.scene, projection_shader |-> p.projection_shader,
         shaders |-> p.shaders, raised |-> p.raised]

\* The call that ran last, for the operations that take a shader name.
SceneCall(op, file, n, sh, raised) ==
    [op |-> op, arg |-> file, name |-> n, shader |-> sh, raised |-> raised,
     ret |-> <<>>, branch |-> "none"]

\* The JSON files of the scene operations: a complete record, one with
\* imageHeight 0, no file.
CreateFiles ==
    {[exists |-> TRUE, data |-> MakeRecord(16 * Scale, 9 * Scale, 12, [rows |-> BaseRows], Keys)],
     [exists |-> TRUE, data |-> MakeRecord(16 * Scale, 0, 12, [rows |-> BaseRows], Keys)],
     MissingFile}

\* The count of cameras created under the name n, after a step from the scene
\* sc to the scene sc2.
Made(n, sc, sc2) ==
    IF ~objExists(sc, n) /\ objExists(sc2, n) THEN [made EXCEPT ![n] = @ + 1] ELSE made

\* A call create_camera() with the camera name n and the JSON file as it is then.
CreateCamera ==
    \E n \in CameraNames, file \in Files :
        LET r == create_camera(n, file, Self, scene)
        IN  /\ SetSelf(r.self)
            /\ scene' = r.scene
            /\ last' = Call("create_camera", file, n, r.raised, <<>>, "none")
            /\ made' = Made(n, scene, r.scene)
            /\ UNCHANGED <<projection_shader, shaders, ui, mem>>
            /\ Harness

\* A call update_camera() with the camera name n and the JSON file as it is then.
UpdateCamera ==
    \E n \in CameraNames, file \in Files :
        LET r == update_camera(n, file, Self, scene)
        IN  /\ SetSelf(r.self)
            /\ scene' = r.scene
            /\ last' = Call("update_camera", file, n, r.raised, <<>>, "none")
            /\ UNCHANGED <<projection_shader, shaders, made, ui, mem>>
            /\ Harness

\* A click on 'Create Scene': create_scene() with the names and the file the
\* fields give.
CreateScene ==
    \E n \in CameraNames, sh \in ShaderNames, file \in CreateFiles :
        \E r \in {create_scene(n, sh, file, Self, projection_shader, scene, shaders)} :
            /\ r.shaders[sh] <= MaxCopies
            /\ SetSelf(r.self)
            /\ projection_shader' = r.projection_shader
            /\ scene' = r.scene
            /\ shaders' = r.shaders
            /\ made' = Made(n, scene, r.scene)
            /\ last' = SceneCall("create_scene", file, n, sh, r.raised)
            /\ UNCHANGED <<ui, mem>>
            /\ Harness

\* A call create_projection_shader() with the camera name n and the shader name sh.
CreateProjectionShader ==
    \E n \in CameraNames, sh \in ShaderNames :
        LET r == create_projection_shader(n, sh, projection_shader, scene, shaders)
        IN  /\ r.shaders[sh] <= MaxCopies
            /\ projection_shader' = r.projection_shader
            /\ shaders' = r.shaders
            /\ last' = SceneCall("create_projection_shader", MissingFile, n, sh, r.raised)
            /\ UNCHANGED <<aspect_ratio, angle_of_view, focal_length, pos_x, pos_y,
                           pos_z, euler_angles, scene, made, ui, mem>>
            /\ Harness

\* add_button, line 281: button.setEnabled(not empty_field).
add_button(empty_field) == ~empty_field

\* FSyncUI.__init__: the fields are empty, the checkbox is off, and the two
\* buttons are built with setEnabled(not self.file_fields_empty).
NewUI ==
    [json_file_field |-> "", image_file_field |-> "", camera_name_field |-> "",
     shader_name_field |-> "", image_sequence_checkbox |-> FALSE,
     frame_offset_textbox |-> FALSE,
     file_fields_empty |-> TRUE,
     create_scene_button |-> add_button(TRUE), update_scene_button |-> add_button(TRUE)]

\* The paths a file field may hold; "" is the empty field, and the file dialog
\* closed without a choice.
JsonPaths == {"", "shot.json", "take2.json"}
ImagePaths == {"", "plate.jpg", "plate.1001.jpg"}

\* The texts of the camera and shader name fields; "" shows the placeholder.
NameTexts == {"", "shotCam", "shaderB"}

\* update_button_state with 'or' for 'and'.
update_button_state_Or(u) ==
    LET empty == ~(u.json_file_field # "" \/ u.image_file_field # "")
    IN  [u EXCEPT !.file_fields_empty = empty,
                  !.create_scene_button = ~empty,
                  !.update_scene_button = ~empty]

\* update_button_state, lines 287-289; a str is true when it is not empty.
update_button_state(u) ==
    LET empty == ~(u.json_file_field # "" /\ u.image_file_field # "")
    IN  [u EXCEPT !.file_fields_empty = empty,
                  !.create_scene_button = ~empty,
                  !.update_scene_button = ~empty]

\* The text t arrives in the JSON file field, typed or by setText: textChanged
\* is emitted when the text differs, and update_button_state is its slot.
SetJsonText(u, t) ==
    IF t = u.json_file_field THEN u
    ELSE update_button_state([u EXCEPT !.json_file_field = t])

\* The same for the image file field.
SetImageText(u, t) ==
    IF t = u.image_file_field THEN u
    ELSE update_button_state([u EXCEPT !.image_file_field = t])

\* The call that ran last on the window: the handler and the text it was given.
UICall(op, t) ==
    [op |-> op, arg |-> t, name |-> "", raised |-> "none", ret |-> <<>>, branch |-> "none"]

\* The UI handlers leave the FSyncFunc object and the scene alone.
Window ==
    UNCHANGED <<aspect_ratio, angle_of_view, focal_length, pos_x, pos_y, pos_z,
                euler_angles, projection_shader, scene, shaders, made, mem>>

\* The user edits the JSON file field.
EditJsonFile ==
    \E t \in JsonPaths :
        /\ t # ui.json_file_field
        /\ ui' = SetJsonText(ui, t)
        /\ last' = UICall("edit_json_file", t)
        /\ Window
        /\ Harness

\* The user edits the image file field.
EditImageFile ==
    \E t \in ImagePaths :
        /\ t # ui.image_file_field
        /\ ui' = SetImageText(ui, t)
        /\ last' = UICall("edit_image_file", t)
        /\ Window
        /\ Harness

\* select_file, lines 295-298: a 'Browse Files' click; the dialog gives a path,
\* or "" when it is closed.
SelectFile ==
    \E field_name \in {"json", "image"} :
        \E file_path \in (IF field_name = "json" THEN JsonPaths ELSE ImagePaths) :
            /\ ui' = IF file_path = "" THEN ui
                     ELSE IF field_name = "json" THEN SetJsonText(ui, file_path)
                     ELSE SetImageText(ui, file_path)
            /\ last' = UICall("select_file", file_path)
            /\ Window
            /\ Harness

\* The user edits the camera name field or the shader name field: no slot is
\* connected to them.
EditName ==
    \E t \in NameTexts :
        /\ \/ t # ui.camera_name_field /\ ui' = [ui EXCEPT !.camera_name_field = t]
           \/ t # ui.shader_name_field /\ ui' = [ui EXCEPT !.shader_name_field = t]
        /\ last' = UICall("edit_name", t)
        /\ Window
        /\ Harness

\* The 'Image Sequence' checkbox is toggled (lines 267-270): the start-frame
\* textbox is enabled with it.
ToggleImageSequence ==
    /\ ui' = [ui EXCEPT !.image_sequence_checkbox = ~@, !.frame_offset_textbox = ~@]
    /\ last' = UICall("toggled", "")
    /\ Window
    /\ Harness

\* show_dockable_window: the window is rebuilt around a new FSyncUI and a new
\* FSyncFunc object; the scene stays.
ShowDockableWindow ==
    /\ SetSelf(NewSelf)
    /\ projection_shader' = NoShader
    /\ ui' = NewUI
    /\ last' = Call("show_dockable_window", <<>>, "", "none", <<>>, "none")
    /\ UNCHANGED <<scene, shaders, made, mem>>
    /\ Harness

----------------------------------------------------------------------------
(* The converter on its own: a matrix is chosen, then converted.           *)

\* Largest |roll|, |yaw| a matrix is built from, in angle units (54 = 270 degrees).
MaxAngle == 54

\* How far beyond 1 (in 1/Scale) the entry matrix[2,0] is taken.
MaxOver == 2

\* How close to 1 (in 1/Scale) the entry matrix[2,0] is taken.
MaxNear == 2

\* Roll and yaw of the matrices built: every 15 degrees.  Odd multiples of 180
\* degrees are left out: there float64 decides between +180 and -180 by the
\* rounding residue of sin(pi), which fixed point does not carry.
RollYawIn == {a \in (0 - MaxAngle)..MaxAngle : a % 3 = 0 /\ a % 72 # 36}

\* Pitch of the matrices built: strictly inside (-pi/2, pi/2).
PitchIn == (1 - HalfPi)..(HalfPi - 1)

\* Values of matrix[2,0]: inside [-1, 1], exactly +-1, next to +-1, outside.
R20Vals ==
    {0, 500, 0 - 866}
    \cup {s * Scale : s \in {0 - 1, 1}}
    \cup {s * (Scale - k) : s \in {0 - 1, 1}, k \in 1..MaxNear}
    \cup {s * (Scale + k) : s \in {0 - 1, 1}, k \in 1..MaxOver}
    \cup {s * 2 * Scale : s \in {0 - 1, 1}}

\* Values of the other entries.
EntryVals == {0 - Scale, 0, 707}

\* After construction: every derived parameter is None, the scene holds no
\* camera, nothing was called.
Init ==
    /\ aspect_ratio = None /\ angle_of_view = None /\ focal_length = None
    /\ pos_x = None /\ pos_y = None /\ pos_z = None
    /\ euler_angles = <<>>
    /\ projection_shader = NoShader
    /\ scene = [n \in CameraNames |-> NoNode]
    /\ shaders = [sh \in ShaderNames |-> 0]
    /\ made = [n \in CameraNames |-> 0]
    /\ ui = NewUI
    /\ last = NoCall
    /\ mem = NoMem
    /\ matrix = <<>>
    /\ angles_in = <<>>
    /\ pc = "idle"

Frame == UNCHANGED <<aspect_ratio, angle_of_view, focal_length, pos_x, pos_y, pos_z,
                     euler_angles, projection_shader, scene, shaders, made, ui, mem>>

\* A matrix built from Euler angles.
BuildFromEuler ==
    /\ pc = "idle"
    /\ \E roll \in RollYawIn, pitch \in PitchIn, yaw \in RollYawIn :
          /\ matrix' = EulerToMatrix(roll, pitch, yaw)
          /\ angles_in' = <<Degrees(roll), Degrees(pitch), Degrees(yaw)>>
    /\ pc' = "ready"
    /\ UNCHANGED last
    /\ Frame

\* Any matrix, orthonormal or not.
PickMatrix ==
    /\ pc = "idle"
    /\ \E r20 \in R20Vals, r01 \in EntryVals, r02 \in EntryVals, r21 \in EntryVals,
          r22 \in EntryVals, r10 \in EntryVals, r00 \in EntryVals, r11 \in {0, Scale} :
          matrix' = << <<r00, r01, r02>>, <<r10, r11, 0>>, <<r20, r21, r22>> >>
    /\ angles_in' = <<>>
    /\ pc' = "ready"
    /\ UNCHANGED last
    /\ Frame

\* The call rotation_matrix_to_euler_zyx(matrix).  No statement of the function
\* raises on numbers: the numpy functions return nan.
Convert ==
    /\ pc = "ready"
    /\ last' = Call("rotation_matrix_to_euler_zyx", matrix, "", "none",
                     rotation_matrix_to_euler_zyx(matrix), BranchTaken(matrix))
    /\ pc' = "done"
    /\ UNCHANGED <<matrix, angles_in>>
    /\ Frame

----------------------------------------------------------------------------
(* The specifications *)

NextEuler == BuildFromEuler \/ PickMatrix \/ Convert

NextExtract == ExtractData \/ ShowDockableWindow

Next == CreateCamera \/ UpdateCamera \/ ShowDockableWindow

NextScene == CreateScene \/ CreateProjectionShader \/ ShowDockableWindow

NextUI ==
    \/ EditJsonFile
    \/ EditImageFile
    \/ SelectFile
    \/ EditName
    \/ ToggleImageSequence
    \/ ShowDockableWindow

\* The camera operations on the scene, any number of times, with window re-openings.
Spec == Init /\ [][Next]_vars

\* Clicks on 'Create Scene' and calls of create_projection_shader, with window
\* re-openings.
SpecScene == Init /\ [][NextScene]_vars

\* Any sequence of edits of the window's fields, with window re-openings.
SpecUI == Init /\ [][NextUI]_vars

\* Any sequence of extract_data calls on one object or on successive objects.
SpecExtract == Init /\ [][NextExtract]_vars

\* One call of the converter on a matrix, built from Euler angles or arbitrary.
SpecEuler == Init /\ [][NextEuler]_vars

----------------------------------------------------------------------------
(* Claims about the converter, under SpecEuler *)

\* The converter has returned for the matrix chosen.
Converted == pc = "done" /\ last.op = "rotation_matrix_to_euler_zyx"

\* The returned array, by index.
Ret0 == last.ret[1]

Ret1 == last.ret[2]

Ret2 == last.ret[3]

\* Two angles in degrees that differ by whole turns.
SameAngle(a, b) == (a - b) % 360 = 0

\* C1: for every matrix with R[2][0] exactly -1 the converter returns
\* pitch = 90, yaw = 0 and roll = atan2(R[0][1], R[0][2]) in degrees; for every
\* matrix with R[2][0] exactly +1 it returns pitch = -90, yaw = 0 and
\* roll = atan2(-R[0][1], -R[0][2]) in degrees.
C1_GimbalLock ==
    Converted =>
        /\ At(matrix, 2, 0) = 0 - Scale =>
              /\ Ret1 = 90 /\ Ret2 = 0
              /\ Ret0 = Degrees(ArcTan2(At(matrix, 0, 1), At(matrix, 0, 2)))
        /\ At(matrix, 2, 0) = Scale =>
              /\ Ret1 = 0 - 90 /\ Ret2 = 0
              /\ Ret0 = Degrees(ArcTan2(0 - At(matrix, 0, 1), 0 - At(matrix, 0, 2)))

\* C1 witness: both gimbal-lock cases converted, with a roll that is not 0.
C1_Witness ==
    /\ Converted /\ At(matrix, 2, 0) = 0 - Scale
    /\ At(matrix, 0, 1) = 707 /\ At(matrix, 0, 2) = 0 - Scale /\ Ret0 = 145

C1_WitnessPlus ==
    /\ Converted /\ At(matrix, 2, 0) = Scale
    /\ At(matrix, 0, 1) = 707 /\ At(matrix, 0, 2) = 707 /\ Ret0 = 0 - 135

\* C2 as stated: for every (roll, pitch, yaw) with pitch strictly inside
\* (-90, 90), converting Rz(yaw).Ry(pitch).Rx(roll) returns the original
\* (roll, pitch, yaw).
C2_RoundTripExact == Converted /\ angles_in # <<>> => last.ret = angles_in

\* C2 amended: the converter returns the original pitch, and a roll and a yaw
\* in [-180, 180] that equal the original roll and yaw modulo 360 degrees (so
\* the original ones when these lie inside (-180, 180)); the identity matrix
\* yields (0, 0, 0).
C2_RoundTrip ==
    Converted /\ angles_in # <<>> =>
        /\ Ret1 = angles_in[2]
        /\ SameAngle(Ret0, angles_in[1]) /\ Ret0 \in (0 - 180)..180
        /\ SameAngle(Ret2, angles_in[3]) /\ Ret2 \in (0 - 180)..180
        /\ (angles_in[1] \in (0 - 179)..179 => Ret0 = angles_in[1])
        /\ (angles_in[3] \in (0 - 179)..179 => Ret2 = angles_in[3])
        /\ (angles_in = <<0, 0, 0>> => last.ret = <<0, 0, 0>>)

\* C2 witness: a round trip with three different non-zero angles, pitch next
\* to 90 degrees and a roll outside the principal range.
C2_Witness ==
    /\ Converted /\ angles_in = <<225, 85, 0 - 30>>
    /\ last.ret = <<0 - 135, 85, 0 - 30>>

\* C8 as stated: when R[2][0] lies outside [-1, 1] the converter raises and
\* returns no triple of angles.
C8_Raises == Converted /\ Abs(At(matrix, 2, 0)) > Scale => last.raised # "none"

\* C8 amended: when R[2][0] lies outside [-1, 1] the converter raises nothing
\* and returns the triple (nan, nan, nan).
C8_ReturnsNaN ==
    Converted /\ Abs(At(matrix, 2, 0)) > Scale =>
        last.raised = "none" /\ last.ret = <<NaN, NaN, NaN>>

\* C8 witness: a matrix with R[2][0] just above 1 converted.
C8_Witness ==
    Converted /\ At(matrix, 2, 0) = Scale + 1 /\ last.ret = <<NaN, NaN, NaN>>

\* C9: the gimbal-lock branch (yaw forced to 0, pitch = +-90) is taken if and
\* only if R[2][0] is exactly 1 or exactly -1; for every other R[2][0] in
\* [-1, 1] the regular branch is taken and returns pitch = -asin(R[2][0]),
\* which lies in [-90, 90].
C9_ExactBranch ==
    Converted /\ Abs(At(matrix, 2, 0)) <= Scale =>
        /\ last.branch = "gimbal" <=> At(matrix, 2, 0) \in {Scale, 0 - Scale}
        /\ last.branch = "gimbal" => Ret2 = 0 /\ Abs(Ret1) = 90
        /\ last.branch # "gimbal" =>
              /\ last.branch = "regular"
              /\ Ret1 = Degrees(Neg(ArcSin(At(matrix, 2, 0))))
              /\ Ret1 \in (0 - 90)..90
              /\ Abs(Ret1) # 90

\* C9 witness: R[2][0] next to 1 converted by the regular branch, with a yaw
\* that is not 0.
C9_Witness ==
    /\ Converted /\ At(matrix, 2, 0) = Scale - 1 /\ last.branch = "regular"
    /\ Ret1 = 0 - 85 /\ Ret2 # 0

----------------------------------------------------------------------------
(* Claims about extract_data, under SpecExtract *)

\* The call that ran last was extract_data(last.arg).
ExtractCalled == last.op = "extract_data"

\* The record has cameraTransform.rows.
HasRows(d) == HasKey(d, "cameraTransform") /\ HasKey(d["cameraTransform"], "rows")

RowsOf(d) == d["cameraTransform"]["rows"]

\* Lines 436-438 complete on the record: the three scalar keys are there and
\* imageHeight is not 0.
ScalarsFine(d) ==
    /\ HasKey(d, "imageWidth") /\ HasKey(d, "imageHeight")
    /\ HasKey(d, "horizontalFieldOfView") /\ d["imageHeight"] # 0

\* C4: for every record whose cameraTransform.rows is a 4x4 matrix (and on which
\* the statements before the position is read complete), extract_data returns
\* and has set (pos_x, pos_y, pos_z) to exactly (rows[0][3], rows[1][3],
\* rows[2][3]), whatever the rotation part, row 3 and the other fields are.
C4_TranslationPassThrough ==
    (/\ ExtractCalled /\ HasRows(last.arg) /\ IsFourByFour(RowsOf(last.arg))
     /\ ScalarsFine(last.arg))
    => /\ last.raised = "none"
       /\ <<pos_x, pos_y, pos_z>>
            = <<RowsOf(last.arg)[1][4], RowsOf(last.arg)[2][4], RowsOf(last.arg)[3][4]>>

\* C4 witness: the translation (5, -3, 10) extracted from a transform whose
\* rotation is not the identity and whose row 3 is not (0, 0, 0, 1).
C4_Witness ==
    /\ ExtractCalled /\ last.raised = "none" /\ IsFourByFour(RowsOf(last.arg))
    /\ RowsOf(last.arg)[4] = <<9 * Scale, 8 * Scale, 7 * Scale, 6 * Scale>>
    /\ RotMatrix(RowsOf(last.arg)) = EulerToMatrix(6, 9, 12)
    /\ <<pos_x, pos_y, pos_z>> = <<5 * Scale, 0 - 3 * Scale, 10 * Scale>>

\* C5: extract_data raises whenever a required key (imageWidth, imageHeight,
\* horizontalFieldOfView, cameraTransform.rows) is absent or cameraTransform.rows
\* does not have the 4x4 shape; it never returns normally on such a record.
C5_MalformedRaises ==
    (/\ ExtractCalled
     /\ \/ ~HasKey(last.arg, "imageWidth") \/ ~HasKey(last.arg, "imageHeight")
        \/ ~HasKey(last.arg, "horizontalFieldOfView") \/ ~HasRows(last.arg)
        \/ ~IsFourByFour(RowsOf(last.arg)))
    => last.raised # "none"

\* C7: an extraction of a record that was extracted before yields the derived
\* parameters the earlier extraction yielded, whatever was stored in between.
C7_Idempotent ==
    ExtractCalled /\ last.raised = "none" /\ last.arg = mem.arg => Self = mem.self

\* C7 witness: the record extracted first was extracted again by a call that
\* started from other stored parameters.
C7_Witness ==
    /\ ExtractCalled /\ last.raised = "none" /\ last.arg = mem.arg /\ mem.again
    /\ Self = mem.self /\ euler_angles = <<30, 45, 60>>

\* C10: an extraction that fails leaves every stored parameter as it was
\* before the call.
C10_FailureLeavesParams ==
    [][last'.op = "extract_data" /\ last'.raised # "none" => Self' = Self]_vars

----------------------------------------------------------------------------
(* Claims about the camera operations, under Spec *)

\* update_camera ran last, returned, and the camera it names exists.
CameraUpdated ==
    /\ last.op = "update_camera" /\ last.raised = "none"
    /\ objExists(scene, last.name)

\* C3: the converter returns its angles in the order (roll, pitch, yaw) in both
\* branches (index 1 is the pitch: -asin(R[2][0]), or +-90 at gimbal lock, where
\* index 2, the yaw, is 0 and index 0, the roll, is the atan2 of line 458), and
\* update_camera sets rotateX, rotateY, rotateZ from indices 0, 1, 2.
C3_OutputOrder ==
    CameraUpdated =>
        LET m == RotMatrix(RowsOf(last.arg.data))
            node == scene[last.name]
        IN  /\ node.rotateX = euler_angles[1]
            /\ node.rotateY = euler_angles[2]
            /\ node.rotateZ = euler_angles[3]
            /\ At(m, 2, 0) = 0 - Scale =>
                  /\ node.rotateY = 90 /\ node.rotateZ = 0
                  /\ node.rotateX = Degrees(ArcTan2(At(m, 0, 1), At(m, 0, 2)))
            /\ Abs(At(m, 2, 0)) < Scale =>
                  node.rotateY = Degrees(Neg(ArcSin(At(m, 2, 0))))
            /\ m = EulerToMatrix(6, 9, 12) =>
                  <<node.rotateX, node.rotateY, node.rotateZ>> = <<30, 45, 60>>

\* C3 witness: a camera updated from the rotation built from roll 30, pitch 45,
\* yaw 60.
C3_Witness ==
    /\ CameraUpdated
    /\ RotMatrix(RowsOf(last.arg.data)) = EulerToMatrix(6, 9, 12)
    /\ scene[last.name].rotateX = 30 /\ scene[last.name].rotateY = 45
    /\ scene[last.name].rotateZ = 60

\* The file of the call holds a record with imageWidth and imageHeight = 0.
ZeroHeight(c) ==
    /\ c.op \in {"create_camera", "update_camera"} /\ c.arg.exists
    /\ HasKey(c.arg.data, "imageWidth") /\ HasKey(c.arg.data, "imageHeight")
    /\ c.arg.data["imageHeight"] = 0

\* C6: when imageHeight is 0, the division error of extract_data leaves
\* create_camera and update_camera uncaught (create_camera reaches extract_data
\* when no object has the camera's name), and the step creates no camera and
\* sets no camera attribute.
C6_ZeroHeightPropagates ==
    [][ZeroHeight(last') =>
          /\ scene' = scene
          /\ (last'.op = "update_camera" \/ ~objExists(scene, last'.name))
               => last'.raised = "ZeroDivisionError"]_vars

\* C6 witness: update_camera raised the division error on a camera that exists
\* and keeps the translation it was created with.
C6_Witness ==
    /\ ZeroHeight(last) /\ last.op = "update_camera"
    /\ last.raised = "ZeroDivisionError"
    /\ objExists(scene, last.name)
    /\ scene[last.name].translateX = 5 * Scale
    /\ scene[last.name].focalLength = None

\* The step is a click on 'Create Scene'.
SceneCreated == last'.op = "create_scene"

\* C11: when an object named camera_name is in the scene, create_scene's
\* create_camera returns without loading the JSON file (a missing file raises
\* nothing) and leaves the scene's cameras and the derived parameters as they
\* were; and no sequence of create_scene calls creates a second camera under
\* one name.
C11_ExistingCameraKept ==
    [][/\ \A n \in CameraNames : made'[n] <= 1
       /\ (SceneCreated /\ objExists(scene, last'.name))
              => /\ scene' = scene
                 /\ made' = made
                 /\ Self' = Self
                 /\ last'.raised = "none"]_vars

\* create_scene ran with no JSON file on a camera name that was in the scene.
C11_Witness ==
    /\ last.op = "create_scene"
    /\ last.arg = MissingFile
    /\ last.raised = "none"
    /\ objExists(scene, last.name)
    /\ made[last.name] = 1

\* The step is a run of create_projection_shader, from create_scene or alone.
ShaderCalled == last'.op \in {"create_scene", "create_projection_shader"}

\* C12: create_projection_shader makes no shader, file, projection or
\* shading-group node when a node named shader_name is in the scene, whatever
\* create_scene calls and window re-openings came before; and it makes none
\* when no camera named camera_name is in the scene.
C12_NoSecondShader ==
    [][(/\ ShaderCalled
        /\ \/ shaderExists(shaders, last'.shader)
           \/ last'.op = "create_projection_shader" /\ ~objExists(scene, last'.name))
          => shaders' = shaders]_vars

\* Both file fields hold text.
BothFilesGiven == ui.json_file_field # "" /\ ui.image_file_field # ""

\* C13: in every state of the window the 'Create Scene' and 'Update Scene'
\* buttons are enabled exactly when the JSON file field and the image file
\* field are both non-empty, and file_fields_empty is the negation of that.
C13_ButtonsFollowFields ==
    /\ ui.create_scene_button = BothFilesGiven
    /\ ui.update_scene_button = BothFilesGiven
    /\ ui.file_fields_empty = ~BothFilesGiven

\* An edit or a file choice has just emptied or filled one file field while the
\* other holds text.
C13_WitnessDisabled ==
    /\ last.op \in {"edit_json_file", "edit_image_file", "select_file"}
    /\ (ui.json_file_field = "") # (ui.image_file_field = "")
    /\ ~ui.create_scene_button

\* Both buttons are enabled after a file choice filled the second file field.
C13_Witness ==
    /\ last.op = "select_file"
    /\ BothFilesGiven
    /\ ui.create_scene_button
    /\ ui.update_scene_button

====
